---- MODULE Spec2Model ----
(***************************************************************************)
(* Model of app_combined_safe.py: the US economic & earnings calendar      *)
(* feed.  Text that the code inspects character by character (timing       *)
(* labels, release names) is a sequence of one-character strings; text the *)
(* code only compares or copies (symbols, raw date strings) is a string.   *)
(* An absent field and an empty one are both the empty value: every place  *)
(* the code reads a field it uses `x.get(k) or default`/`if not x`, which  *)
(* does not tell None from "".                                             *)
(* Instants are minutes; a datetime is [local, tz]: minutes on the wall    *)
(* clock of its zone, and the zone ("naive", "ET" or "UTC").               *)
(***************************************************************************)
EXTENDS Integers, Sequences, FiniteSets, TLC

VARIABLES
    cfg,      \* the environment configuration read at import (lines 16-26)
    workers,  \* the threads the WSGI server runs the views on (line 388)
    clock,    \* the wall clock, minutes (time.time(), datetime.now)
    cache,    \* _cache: ics, ts (and who wrote each, for the claims)
    thr,      \* per worker thread: the request it serves and where it is
    nbuilds,  \* rebuilds started so far (numbers the rebuilds)
    last,     \* the request answered last, and its response
    cpc,      \* collect_combined_events run on its own: position
    creq,     \* ... the request's all=1 flag
    cecon,    \* ... econ (line 198-207), or the exception that ended it
    csp500,   \* ... sp500 (line 234)
    cearn,    \* ... earn (line 236)
    cchunk,   \* ... index of the next date chunk to fetch
    cresult   \* ... what collect_combined_events returned or raised

vars == <<cfg, workers, clock, cache, thr, nbuilds, last, cpc, creq, cecon, csp500, cearn, cchunk, cresult>>

serverVars == <<clock, cache, thr, nbuilds, last>>
collectVars == <<cpc, creq, cecon, csp500, cearn, cchunk, cresult>>

(***************************************************************************)
(* Bounds of the model.                                                    *)
(***************************************************************************)
NumThreads == 2
MaxTime == 2
MaxBuilds == 2

(***************************************************************************)
(* Program constants.                                                      *)
(***************************************************************************)
\* CACHE_TTL, in minutes (the environment sets CACHE_TTL=120 seconds).
CACHE_TTL == 2
\* LOOKAHEAD_DAYS (the environment sets LOOKAHEAD_DAYS=100: two 60-day chunks).
LOOKAHEAD_DAYS == 100
\* range(3) in _get
Attempts == 3
\* step_days=60 at both calls of daterange_chunks
StepDays == 60
\* timedelta(minutes=15) in build_calendar
EventMinutes == 15
\* timedelta(days=1), in minutes
DayMinutes == 1440
\* America/New_York behind UTC, minutes (standard time; no DST in the model)
EtOffset == 300

DOW30 ==
    {"AAPL","MSFT","JPM","V","JNJ","WMT","PG","DIS","HD","MA","XOM","PFE",
     "KO","PEP","CSCO","CVX","INTC","MCD","UNH","BAC","VZ","TRV","MMM","NKE",
     "MRK","AXP","DOW","GS","RTX","IBM"}

(***************************************************************************)
(* Text helpers: str.lower, str.strip, `k in w`, str.upper.                *)
(***************************************************************************)
LowerChar(c) ==
    CASE c = "A" -> "a" [] c = "B" -> "b" [] c = "C" -> "c" [] c = "D" -> "d"
      [] c = "E" -> "e" [] c = "F" -> "f" [] c = "G" -> "g" [] c = "H" -> "h"
      [] c = "I" -> "i" [] c = "J" -> "j" [] c = "K" -> "k" [] c = "L" -> "l"
      [] c = "M" -> "m" [] c = "N" -> "n" [] c = "O" -> "o" [] c = "P" -> "p"
      [] c = "Q" -> "q" [] c = "R" -> "r" [] c = "S" -> "s" [] c = "T" -> "t"
      [] c = "U" -> "u" [] c = "V" -> "v" [] c = "W" -> "w" [] c = "X" -> "x"
      [] c = "Y" -> "y" [] c = "Z" -> "z" [] OTHER -> c

Lower(s) == [i \in 1..Len(s) |-> LowerChar(s[i])]

RECURSIVE LStrip(_)
LStrip(s) == IF s # <<>> /\ Head(s) = " " THEN LStrip(Tail(s)) ELSE s

RECURSIVE RStrip(_)
RStrip(s) ==
    IF s # <<>> /\ s[Len(s)] = " " THEN RStrip(SubSeq(s, 1, Len(s) - 1)) ELSE s

Strip(s) == RStrip(LStrip(s))

\* k in w
Contains(w, k) ==
    \E i \in 0..(Len(w) - Len(k)) : SubSeq(w, i + 1, i + Len(k)) = k

\* str.upper on the symbols of the model
Upper(s) ==
    CASE s = "aapl" -> "AAPL" [] s = "nvda" -> "NVDA" [] s = "zzz" -> "ZZZ"
      [] OTHER -> s

(***************************************************************************)
(* Dates.  dateutil's parser.parse on the raw date strings of the model.   *)
(* The model's day 0 starts at clock 0 (UTC); 2024-03-12 is day 1.         *)
(***************************************************************************)
NoDt == [local |-> 0, tz |-> "naive"]

Parse(d) ==
    CASE d = "2024-03-12" -> [ok |-> TRUE, dt |-> [local |-> 1 * DayMinutes, tz |-> "naive"]]
      [] d = "2024-03-13" -> [ok |-> TRUE, dt |-> [local |-> 2 * DayMinutes, tz |-> "naive"]]
      [] d = "2024-03-12T13:30:00Z" ->
             [ok |-> TRUE, dt |-> [local |-> 1 * DayMinutes + 810, tz |-> "UTC"]]
      [] d = "2024-03-13 17:00:00" ->
             [ok |-> TRUE, dt |-> [local |-> 2 * DayMinutes + 1020, tz |-> "naive"]]
      [] OTHER -> [ok |-> FALSE, dt |-> NoDt]

\* "T" in str(date_raw) and len(str(date_raw)) > 10
HasTimePart(d) == d \in {"2024-03-12T13:30:00Z"}

\* dt.date(), as the first minute of that day
DateOf(dt) == (dt.local \div DayMinutes) * DayMinutes

\* TZ.localize(datetime.combine(date, time))
LocalizeAt(date, minutes) == [local |-> date + minutes, tz |-> "ET"]

to_utc(dt) ==
    IF dt.tz = "UTC" THEN dt.local ELSE dt.local + EtOffset

\* datetime.now(TZ)
NowET(now) == [local |-> now - EtOffset, tz |-> "ET"]

(***************************************************************************)
(* _get: up to three attempts; what each attempt does is the input.        *)
(***************************************************************************)
AttemptOutcomes == {"200", "non200", "exception"}
AttemptSeqs == [1..Attempts -> AttemptOutcomes]

RECURSIVE GetFrom(_, _)
GetFrom(att, i) ==
    IF i > Attempts THEN "None"
    ELSE IF att[i] = "200" THEN "response"
    ELSE IF att[i] = "exception" /\ i = Attempts THEN "raise"
    ELSE GetFrom(att, i + 1)

_get(att) == GetFrom(att, 1)

(***************************************************************************)
(* daterange_chunks(start, end, step_days), in days.                       *)
(***************************************************************************)
Min(a, b) == IF a <= b THEN a ELSE b

RECURSIVE ChunksFrom(_, _, _)
ChunksFrom(cur, end, step) ==
    IF cur > end THEN <<>>
    ELSE LET nxt == Min(cur + step - 1, end)
         IN <<<<cur, nxt>>>> \o ChunksFrom(nxt + 1, end, step)

daterange_chunks(start, end, step) == ChunksFrom(start, end, step)

\* the chunks of the window today .. today + LOOKAHEAD_DAYS
NumChunks == Len(daterange_chunks(0, LOOKAHEAD_DAYS, StepDays))

(***************************************************************************)
(* What an HTTP call meets: the three attempts, and the body of the 200    *)
(* response if one comes.  json is "ok" (the shape the adapter expects,    *)
(* holding items), "other" (valid JSON, but a list where the adapter reads  *)
(* an object or an object where it reads a list) or "invalid" (r.json()    *)
(* raises).                                                                *)
(***************************************************************************)
Call(att, json, items) == [att |-> att, json |-> json, items |-> items]

\* what a call returns, or the exception it raises
Ok(v) == [raised |-> FALSE, exc |-> "", value |-> v]
Raised(exc) == [raised |-> TRUE, exc |-> exc, value |-> <<>>]

(***************************************************************************)
(* FRED.                                                                   *)
(***************************************************************************)
\* the dict built by the loop of fetch_fred_release_map: a later id wins
RECURSIVE ReleaseDict(_)
ReleaseDict(rels) ==
    IF rels = <<>> THEN <<>>
    ELSE LET rel == rels[Len(rels)]
             before == ReleaseDict(SubSeq(rels, 1, Len(rels) - 1))
         IN IF rel.id # 0 /\ rel.name # <<>>
            THEN (rel.id :> rel.name) @@ before
            ELSE before

fetch_fred_release_map(call) ==
    LET r == _get(call.att)
    IN IF r = "raise" THEN Raised("RequestException")
       ELSE IF r = "None" THEN Ok(<<>>)
       ELSE IF call.json = "invalid" THEN Raised("JSONDecodeError")
       ELSE IF call.json = "other" THEN Raised("AttributeError")
       ELSE Ok(ReleaseDict(call.items))

EconomicRelease == <<"E", "c", "o", "n", "o", "m", "i", "c", " ", "R", "e", "l", "e", "a", "s", "e">>
EconomicEvent == <<"E", "c", "o", "n", "o", "m", "i", "c", " ", "E", "v", "e", "n", "t">>

\* x or y, on text
OrElse(x, y) == IF x # <<>> THEN x ELSE y

\* the loop of fetch_economic_calendar_fred (lines 108-115)
RECURSIVE FredResults(_, _)
FredResults(dates, id_to_name) ==
    IF dates = <<>> THEN <<>>
    ELSE LET d == Head(dates)
             rest == FredResults(Tail(dates), id_to_name)
             looked == IF d.release_id \in DOMAIN id_to_name
                       THEN id_to_name[d.release_id] ELSE <<>>
             name == OrElse(d.release_name, OrElse(looked, EconomicRelease))
         IN IF d.date = "" \/ d.release_id = 0
            THEN rest
            ELSE <<[event |-> name, date |-> d.date]>> \o rest

fetch_economic_calendar_fred(datesCall, mapCall) ==
    LET r == _get(datesCall.att)
    IN IF r = "raise" THEN Raised("RequestException")
       ELSE IF r = "None" THEN Ok(<<>>)
       ELSE IF datesCall.json = "invalid" THEN Raised("JSONDecodeError")
       ELSE IF datesCall.json = "other" THEN Raised("AttributeError")
       ELSE IF datesCall.items = <<>> THEN Ok(<<>>)
       ELSE LET id_to_name == fetch_fred_release_map(mapCall)
            IN IF id_to_name.raised THEN id_to_name
               ELSE Ok(FredResults(datesCall.items, id_to_name.value))

(***************************************************************************)
(* Trading Economics fallback.                                             *)
(***************************************************************************)
\* (item.get("Country") or "").lower()
LowerCountry(c) == IF c \in {"United States", "UNITED STATES"} THEN "united states" ELSE c

\* the loop over the items of one chunk (lines 129-136)
RECURSIVE TeItems(_)
TeItems(data) ==
    IF data = <<>> THEN <<>>
    ELSE LET item == Head(data)
             name == OrElse(item.Event, OrElse(item.Category, EconomicEvent))
         IN IF LowerCountry(item.Country) # "united states" \/ item.Date = ""
            THEN TeItems(Tail(data))
            ELSE <<[event |-> name, date |-> item.Date]>> \o TeItems(Tail(data))

\* one round of the loop over the chunks (lines 124-136)
te_chunk(results, call) ==
    LET r == _get(call.att)
    IN IF r = "raise" THEN Raised("RequestException")
       ELSE IF r = "None" THEN Ok(results)
       ELSE IF call.json = "invalid" THEN Raised("JSONDecodeError")
       ELSE IF call.json = "other" THEN Ok(results)
       ELSE Ok(results \o TeItems(call.items))

RECURSIVE TeFrom(_, _)
TeFrom(results, calls) ==
    IF calls = <<>> THEN Ok(results)
    ELSE LET one == te_chunk(results, Head(calls))
         IN IF one.raised THEN one ELSE TeFrom(one.value, Tail(calls))

\* calls: one per chunk of daterange_chunks
fetch_economic_calendar_te(calls) == TeFrom(<<>>, calls)

(***************************************************************************)
(* FMP: the S&P 500 constituents and the earnings calendar.                *)
(***************************************************************************)
fetch_sp500_symbols(call) ==
    IF _get(call.att) = "response" /\ call.json = "ok"
    THEN {Upper(call.items[i].symbol) :
              i \in {j \in 1..Len(call.items) : call.items[j].symbol # ""}}
    ELSE {}

\* one round of the loop over the chunks (lines 154-162)
earnings_chunk(results, call) ==
    IF _get(call.att) = "response" /\ call.json = "ok"
    THEN results \o call.items
    ELSE results

RECURSIVE EarningsFrom(_, _)
EarningsFrom(results, calls) ==
    IF calls = <<>> THEN results
    ELSE EarningsFrom(earnings_chunk(results, Head(calls)), Tail(calls))

fetch_earnings_calendar(calls) == EarningsFrom(<<>>, calls)

(***************************************************************************)
(* collect_combined_events.                                                *)
(***************************************************************************)
ten_am_keywords ==
    << <<"J", "o", "b", " ", "O", "p", "e", "n", "i", "n", "g", "s">>,
       <<"J", "O", "L", "T", "S">>,
       <<"C", "o", "n", "s", "u", "m", "e", "r", " ", "C", "o", "n", "f", "i", "d", "e", "n", "c", "e">>,
       <<"I", "S", "M">>,
       <<"F", "a", "c", "t", "o", "r", "y", " ", "O", "r", "d", "e", "r", "s">>,
       <<"C", "o", "n", "s", "t", "r", "u", "c", "t", "i", "o", "n", " ", "S", "p", "e", "n", "d", "i", "n", "g">> >>

pre_keywords ==
    << <<"b", "e", "f", "o", "r", "e">>, <<"p", "r", "e">>, <<"b", "m", "o">>, <<"a", "m">> >>

post_keywords ==
    << <<"a", "f", "t", "e", "r">>, <<"p", "o", "s", "t">>, <<"p", "m">>,
       <<"a", "f", "t", "e", "r", " ", "m", "a", "r", "k", "e", "t">>, <<"a", "m", "c">> >>

\* any(k in w for k in keywords)
AnyIn(keywords, w) == \E i \in 1..Len(keywords) : Contains(w, keywords[i])

\* lines 215-219
DefaultTime(name) ==
    IF \E i \in 1..Len(ten_am_keywords) :
           Contains(Lower(name), Lower(ten_am_keywords[i]))
    THEN 600 ELSE 510

NoUidText == [domain |-> "", name |-> <<>>, symbol |-> "", date |-> ""]
NoDesc == [kind |-> "", symbol |-> "", when |-> <<>>, note |-> FALSE]

\* lines 211-231 for one item that has a date; the parse may raise
EconEvent(item, used_te) ==
    LET name == OrElse(item.event, EconomicRelease)
        p == Parse(item.date)
        dt_local == IF HasTimePart(item.date) THEN p.dt
                    ELSE LocalizeAt(DateOf(p.dt), DefaultTime(name))
    IN IF ~p.ok THEN Raised("ParserError")
       ELSE Ok([summary |-> [name |-> name, symbol |-> "", label |-> " (Economic)"],
                dt |-> dt_local,
                uid_text |-> [domain |-> "econ", name |-> name, symbol |-> "", date |-> item.date],
                description |-> [kind |-> IF used_te THEN "Economic release (TE fallback)"
                                          ELSE "Economic release (FRED releases/dates)",
                                 symbol |-> "", when |-> <<>>, note |-> FALSE]])

\* the loop of lines 210-231
RECURSIVE EconEvents(_, _)
EconEvents(econ, used_te) ==
    IF econ = <<>> THEN Ok(<<>>)
    ELSE IF Head(econ).date = "" THEN EconEvents(Tail(econ), used_te)
    ELSE LET one == EconEvent(Head(econ), used_te)
             rest == EconEvents(Tail(econ), used_te)
         IN IF one.raised THEN one
            ELSE IF rest.raised THEN rest
            ELSE Ok(<<one.value>> \o rest.value)

\* line 235 with the union forgotten: the live list alone when there is one
UniverseLiveOnly(sp500) == IF sp500 # {} THEN sp500 ELSE DOW30

\* line 235
Universe(sp500) == IF sp500 # {} THEN sp500 \cup DOW30 ELSE DOW30

\* lines 239-242
AutoExpandedNow(sp500) ==
    ~cfg.INCLUDE_ALL_EARNINGS_ENV /\ cfg.AUTO_EXPAND_EARNINGS /\ Cardinality(sp500) = 0

\* lines 238-248: include_all after the three assignments
IncludeAll(sp500, all) ==
    LET env == cfg.INCLUDE_ALL_EARNINGS_ENV
        widened == IF AutoExpandedNow(sp500) THEN TRUE ELSE env
    IN IF all THEN TRUE ELSE widened

\* lines 264-274: the label and the default time of day (0: none) of a timing
Classify(when) ==
    LET w == Lower(when)
    IN IF AnyIn(pre_keywords, w) THEN [label |-> " (Pre Market)", default_et |-> 480]
       ELSE IF AnyIn(post_keywords, w) THEN [label |-> " (After Market)", default_et |-> 970]
       ELSE [label |-> "", default_et |-> 0]

\* line 251
SymbolOf(row) == Upper(row.symbol)

\* line 256
WhenOf(row) == Strip(OrElse(row.time, OrElse(row.hour, row.when)))

\* line 252
PassesUniverse(row, sp500, all) ==
    ~(~IncludeAll(sp500, all) /\ SymbolOf(row) \notin Universe(sp500))

\* lines 250-262: whether the row gets to line 264
Emitted(row, sp500, all) ==
    PassesUniverse(row, sp500, all) /\ row.date # "" /\ Parse(row.date).ok

\* lines 264-285 for one row that got there
EarnEvent(row, sp500) ==
    LET symbol == SymbolOf(row)
        when == WhenOf(row)
        c == Classify(when)
        parsed == Parse(row.date).dt
        dt_local == IF c.default_et # 0
                    THEN LocalizeAt(DateOf(parsed), c.default_et) ELSE parsed
    IN [summary |-> [name |-> row.company, symbol |-> symbol,
                     label |-> c.label],
        dt |-> dt_local,
        uid_text |-> [domain |-> "earn", name |-> <<>>, symbol |-> symbol, date |-> row.date],
        description |-> [kind |-> "Earnings", symbol |-> symbol, when |-> when,
                         note |-> AutoExpandedNow(sp500) /\ ~cfg.INCLUDE_ALL_EARNINGS_ENV]]

\* the loop of lines 250-285
RECURSIVE EarnEvents(_, _, _)
EarnEvents(earn, sp500, all) ==
    IF earn = <<>> THEN <<>>
    ELSE IF Emitted(Head(earn), sp500, all)
         THEN <<EarnEvent(Head(earn), sp500)>> \o EarnEvents(Tail(earn), sp500, all)
         ELSE EarnEvents(Tail(earn), sp500, all)

\* list.sort(key=...): stable, ascending by to_utc(e["dt"])
RECURSIVE Insert(_, _)
Insert(sorted, e) ==
    IF sorted = <<>> THEN <<e>>
    ELSE IF to_utc(sorted[Len(sorted)].dt) <= to_utc(e.dt) THEN Append(sorted, e)
    ELSE Append(Insert(SubSeq(sorted, 1, Len(sorted) - 1), e), sorted[Len(sorted)])

RECURSIVE SortFrom(_, _)
SortFrom(sorted, events) ==
    IF events = <<>> THEN sorted
    ELSE SortFrom(Insert(sorted, Head(events)), Tail(events))

SortEvents(events) == SortFrom(<<>>, events)

\* lines 198-200: econ, or the exception of the FRED adapter
EconPrimary(datesCall, mapCall) ==
    IF cfg.FRED_API_KEY THEN fetch_economic_calendar_fred(datesCall, mapCall) ELSE Ok(<<>>)

\* lines 203-207: [raised, value: econ, used_te]
EconFallback(econ, teCalls) ==
    IF econ = <<>> /\ cfg.USE_TE_FALLBACK
    THEN LET te == fetch_economic_calendar_te(teCalls)
         IN [raised |-> te.raised, exc |-> te.exc, value |-> te.value,
             used_te |-> Len(te.value) > 0]
    ELSE [raised |-> FALSE, exc |-> "", value |-> econ, used_te |-> FALSE]

\* lines 209-288, from what the adapters returned
Assemble(econ, used_te, sp500, earn, all) ==
    LET ee == EconEvents(econ, used_te)
    IN IF ee.raised THEN ee
       ELSE Ok(SortEvents(ee.value \o EarnEvents(earn, sp500, all)))

\* The whole function.  w holds what each HTTP call of the run meets.
collect_combined_events(w, all) ==
    LET primary == EconPrimary(w.fredDates, w.fredMap)
    IN IF primary.raised THEN primary
       ELSE LET econ == EconFallback(primary.value, w.te)
            IN IF econ.raised THEN Raised(econ.exc)
               ELSE Assemble(econ.value, econ.used_te, fetch_sp500_symbols(w.sp500),
                             fetch_earnings_calendar(w.earn), all)

(***************************************************************************)
(* build_calendar.  The document is its VEVENTs: the calendar's own        *)
(* properties are fixed text.  sha1 is taken to be injective: the UID is   *)
(* the hashed text itself, with the suffix.                                *)
(***************************************************************************)
NoSummary == [name |-> <<>>, symbol |-> "", label |-> ""]

sha_uid(text) == [sha1 |-> text, suffix |-> "@us-financial-calendar"]

\* ev.get("uid_text") or f'{ev["summary"]}-{dtstart_utc.isoformat()}'
UidText(ev, dtstart_utc) ==
    IF ev.uid_text # NoUidText
    THEN [uid_text |-> ev.uid_text, summary |-> NoSummary, dtstart |-> 0]
    ELSE [uid_text |-> NoUidText, summary |-> ev.summary, dtstart |-> dtstart_utc]

\* lines 176-187 for one event; now is datetime.utcnow()
VEvent(ev, now) ==
    LET dtstart_utc == to_utc(ev.dt)
    IN [summary |-> ev.summary,
        dtstart |-> dtstart_utc,
        dtend |-> dtstart_utc + EventMinutes,
        uid |-> sha_uid(UidText(ev, dtstart_utc)),
        dtstamp |-> to_utc([local |-> now, tz |-> "naive"]),
        description |-> ev.description]

build_calendar(events, now) ==
    [present |-> TRUE, vevents |-> [i \in 1..Len(events) |-> VEvent(events[i], now)]]

\* _cache["ics"] = None
NoDoc == [present |-> FALSE, vevents |-> <<>>]

\* line 301
Placeholders(now) ==
    <<[summary |-> [name |-> <<"F", "a", "l", "l", "b", "a", "c", "k", " ", "G", "D", "P">>,
                    symbol |-> "", label |-> " (Economic)"],
       dt |-> [local |-> NowET(now).local + DayMinutes, tz |-> "ET"],
       uid_text |-> NoUidText,
       description |-> NoDesc]>>

\* lines 298-302: the rebuild of feed, run at time now
FeedRebuild(w, all, now) ==
    LET got == collect_combined_events(w, all)
        events == IF got.value = <<>> THEN Placeholders(now) ELSE got.value
    IN IF got.raised THEN [raised |-> TRUE, ics |-> NoDoc, collected |-> <<>>]
       ELSE [raised |-> FALSE, ics |-> build_calendar(events, now), collected |-> got.value]

\* lines 316-317: the rebuild of warm
WarmRebuild(w, all, now) ==
    LET got == collect_combined_events(w, all)
    IN IF got.raised THEN [raised |-> TRUE, ics |-> NoDoc, collected |-> <<>>]
       ELSE [raised |-> FALSE, ics |-> build_calendar(got.value, now), collected |-> got.value]

(***************************************************************************)
(* The inputs of the model: what the upstream providers answer.            *)
(***************************************************************************)
CPI == <<"C", "P", "I">>
ISM == <<"I", "S", "M">>
BMO == <<"B", "M", "O">>
AMC == <<"A", "M", "C">>

FredDate(date, rid, name) == [date |-> date, release_id |-> rid, release_name |-> name]

FredDatesItems ==
    { <<>>,
      <<FredDate("2024-03-12", 10, <<>>)>>,
      <<FredDate("not-a-date", 10, CPI), FredDate("2024-03-13", 11, ISM)>>,
      <<FredDate("", 10, CPI), FredDate("2024-03-12T13:30:00Z", 11, <<>>)>> }

FredMapItems == { <<>>, <<[id |-> 10, name |-> CPI]>> }

TeItem(country, event, date) ==
    [Country |-> country, Event |-> event, Category |-> <<>>, Date |-> date]

TeItemsSet ==
    { <<>>,
      <<TeItem("United States", CPI, "2024-03-12T13:30:00Z"), TeItem("Germany", ISM, "2024-03-13")>>,
      <<TeItem("United States", ISM, "not-a-date")>> }

Sp500Items == { <<>>, <<[symbol |-> "nvda"]>> }

Row(symbol, date, time) ==
    [symbol |-> symbol, company |-> <<>>, date |-> date, time |-> time,
     hour |-> <<>>, when |-> <<>>]

EarnItems ==
    { <<>>,
      <<Row("AAPL", "2024-03-13", AMC), Row("ZZZ", "2024-03-12", BMO)>>,
      <<Row("MSFT", "not-a-date", <<>>), Row("aapl", "2024-03-12", BMO)>>,
      <<Row("NVDA", "2024-03-13 17:00:00", <<>>), Row("", "2024-03-12", <<"p", "m">>)>>,
      <<Row("zzz", "2024-03-13", <<>>), Row("IBM", "", AMC)>> }

\* every way one HTTP call can go, given the bodies a 200 may carry
Calls(itemsSet) ==
    { Call(att, "ok", items) : att \in AttemptSeqs, items \in itemsSet }
        \cup { Call(att, json, <<>>) : att \in AttemptSeqs, json \in {"other", "invalid"} }

Configs ==
    [FRED_API_KEY : BOOLEAN, USE_TE_FALLBACK : BOOLEAN,
     INCLUDE_ALL_EARNINGS_ENV : BOOLEAN, AUTO_EXPAND_EARNINGS : BOOLEAN]

AllOk == [i \in 1..Attempts |-> "200"]
AllNon200 == [i \in 1..Attempts |-> "non200"]
AllExceptions == [i \in 1..Attempts |-> "exception"]

\* the same call for every chunk
EachChunk(call) == [i \in 1..NumChunks |-> call]

\* every provider answers 200 with nothing in the window
WQuiet ==
    [fredDates |-> Call(AllOk, "ok", <<>>), fredMap |-> Call(AllOk, "ok", <<>>),
     te |-> EachChunk(Call(AllOk, "ok", <<>>)),
     sp500 |-> Call(AllOk, "ok", <<>>),
     earn |-> EachChunk(Call(AllOk, "ok", <<>>))]

\* every provider answers with records
WData ==
    [fredDates |-> Call(AllOk, "ok", <<FredDate("2024-03-12", 10, <<>>)>>),
     fredMap |-> Call(AllOk, "ok", <<[id |-> 10, name |-> CPI]>>),
     te |-> EachChunk(Call(AllOk, "ok", <<TeItem("United States", CPI, "2024-03-12T13:30:00Z")>>)),
     sp500 |-> Call(AllOk, "ok", <<[symbol |-> "nvda"]>>),
     earn |-> [i \in 1..NumChunks |->
                  IF i = 1
                  THEN Call(AllOk, "ok", <<Row("AAPL", "2024-03-13", AMC), Row("ZZZ", "2024-03-12", BMO)>>)
                  ELSE Call(AllOk, "ok", <<>>)]]

\* the economic providers time out on every attempt
WEconDown ==
    [WData EXCEPT !.fredDates = Call(AllExceptions, "ok", <<>>),
                  !.te = EachChunk(Call(AllExceptions, "ok", <<>>))]

\* the economic providers send a date that does not parse
WBadDate ==
    [WData EXCEPT !.fredDates = Call(AllOk, "ok", <<FredDate("not-a-date", 10, CPI)>>),
                  !.te = EachChunk(Call(AllOk, "ok", <<TeItem("United States", ISM, "not-a-date")>>))]

\* every provider answers 503 on every attempt
WAllDown ==
    [fredDates |-> Call(AllNon200, "ok", <<>>), fredMap |-> Call(AllNon200, "ok", <<>>),
     te |-> EachChunk(Call(AllNon200, "ok", <<>>)),
     sp500 |-> Call(AllNon200, "ok", <<>>),
     earn |-> EachChunk(Call(AllNon200, "ok", <<>>))]

\* the states of the world the server's rebuilds meet
Worlds == <<WQuiet, WData, WEconDown, WBadDate, WAllDown>>

(***************************************************************************)
(* The server: worker threads serving feed and /warm over the one _cache.  *)
(* A rebuild reads nothing shared, so it is one step; the two stores of    *)
(* _cache are two statements and two steps.  Beside each value the model   *)
(* records which rebuild made it (meta, tsBy): nothing reads these but the *)
(* properties below.                                                       *)
(***************************************************************************)
Threads == 1..workers

\* by: the number of the rebuild; events: what its collect_combined_events
\* returned; all: whether its request carried all=1
NoMeta == [by |-> 0, events |-> <<>>, all |-> FALSE, kind |-> ""]

IdleThread ==
    [pc |-> "idle", force |-> FALSE, all |-> FALSE, now |-> 0, bid |-> 0,
     ics |-> NoDoc, meta |-> NoMeta]

\* a request and the response it got; rebuilds: the rebuilds it ran
Answer(kind, all, rebuilds, status, mimetype, body, meta) ==
    [kind |-> kind, all |-> all, rebuilds |-> rebuilds, status |-> status,
     mimetype |-> mimetype, body |-> body, meta |-> meta]

NoAnswer == Answer("", FALSE, 0, 0, "", NoDoc, NoMeta)

\* lines 306-311
CalendarResponse(all, rebuilds, ics, meta) ==
    Answer("feed", all, rebuilds, 200, "text/calendar; charset=utf-8", ics, meta)

\* Flask's answer to an exception that leaves the view
ServerError(all, rebuilds) == Answer("feed", all, rebuilds, 500, "text/html", NoDoc, NoMeta)

\* jsonify(...) of warm, with its status
JsonResponse(all, status) == Answer("warm", all, 1, status, "application/json", NoDoc, NoMeta)

\* the environment a deployment sets beside the defaults of lines 16-26
DefaultEnv(fred) ==
    [FRED_API_KEY |-> fred, USE_TE_FALLBACK |-> FALSE,
     INCLUDE_ALL_EARNINGS_ENV |-> FALSE, AUTO_EXPAND_EARNINGS |-> TRUE]

\* line 295
CacheHit(force, now) ==
    cache.ics.present /\ ~force /\ (now - cache.ts < CACHE_TTL)

CollectIdle ==
    /\ cpc = "off"
    /\ creq = FALSE
    /\ cecon = [raised |-> FALSE, exc |-> "", value |-> <<>>, used_te |-> FALSE]
    /\ csp500 = {}
    /\ cearn = <<>>
    /\ cchunk = 1
    /\ cresult = Ok(<<>>)

ServerIdle ==
    /\ clock = 0
    /\ cache = [ics |-> NoDoc, ts |-> 0, meta |-> NoMeta, tsBy |-> 0]
    /\ thr = [t \in Threads |-> IdleThread]
    /\ nbuilds = 0
    /\ last = NoAnswer

\* one worker thread, any environment
Init ==
    /\ cfg \in Configs
    /\ workers = 1
    /\ ServerIdle
    /\ CollectIdle

\* app.run is a threaded server: requests run concurrently
InitThreaded ==
    /\ cfg \in {DefaultEnv(fred) : fred \in BOOLEAN}
    /\ workers = NumThreads
    /\ ServerIdle
    /\ CollectIdle

\* time passes
Tick ==
    /\ clock < MaxTime
    /\ clock' = clock + 1
    /\ UNCHANGED <<cfg, workers, cache, thr, nbuilds, last>>
    /\ UNCHANGED collectVars

\* feed, lines 293-295: a request arrives with its refresh and all arguments
FeedStart(t) ==
    /\ thr[t].pc = "idle"
    /\ \E force \in BOOLEAN, all \in BOOLEAN :
          LET hit == CacheHit(force, clock)
          IN /\ hit \/ nbuilds < MaxBuilds
             /\ thr' = [thr EXCEPT ![t] =
                   [IdleThread EXCEPT !.pc = IF hit THEN "feed_hit" ELSE "feed_build",
                                      !.force = force, !.all = all, !.now = clock,
                                      !.bid = IF hit THEN 0 ELSE nbuilds + 1]]
             /\ nbuilds' = IF hit THEN nbuilds ELSE nbuilds + 1
    /\ UNCHANGED <<cfg, workers, clock, cache, last>>
    /\ UNCHANGED collectVars

\* feed, line 296 and 306-311: serve the stored bytes
FeedHit(t) ==
    /\ thr[t].pc = "feed_hit"
    /\ last' = CalendarResponse(thr[t].all, 0, cache.ics, cache.meta)
    /\ thr' = [thr EXCEPT ![t] = IdleThread]
    /\ UNCHANGED <<cfg, workers, clock, cache, nbuilds>>
    /\ UNCHANGED collectVars

\* feed, lines 298-302: the rebuild; an exception leaves feed
FeedBuild(t) ==
    /\ thr[t].pc = "feed_build"
    /\ \E wi \in 1..Len(Worlds) :
          LET b == FeedRebuild(Worlds[wi], thr[t].all, clock)
          IN IF b.raised
             THEN /\ thr' = [thr EXCEPT ![t] = IdleThread]
                  /\ last' = ServerError(thr[t].all, 1)
             ELSE /\ thr' = [thr EXCEPT
                        ![t].pc = "feed_store_ics",
                        ![t].force = FALSE,
                        ![t].ics = b.ics,
                        ![t].meta = [by |-> thr[t].bid, events |-> b.collected,
                                     all |-> thr[t].all, kind |-> "feed"]]
                  /\ last' = last
    /\ UNCHANGED <<cfg, workers, clock, cache, nbuilds>>
    /\ UNCHANGED collectVars

\* feed, line 303
FeedStoreIcs(t) ==
    /\ thr[t].pc = "feed_store_ics"
    /\ cache' = [cache EXCEPT !.ics = thr[t].ics, !.meta = thr[t].meta]
    /\ thr' = [thr EXCEPT ![t].pc = "feed_store_ts"]
    /\ UNCHANGED <<cfg, workers, clock, nbuilds, last>>
    /\ UNCHANGED collectVars

\* feed, lines 304-311
FeedStoreTs(t) ==
    /\ thr[t].pc = "feed_store_ts"
    /\ cache' = [cache EXCEPT !.ts = thr[t].now, !.tsBy = thr[t].meta.by]
    /\ last' = CalendarResponse(thr[t].all, 1, thr[t].ics, thr[t].meta)
    /\ thr' = [thr EXCEPT ![t] = IdleThread]
    /\ UNCHANGED <<cfg, workers, clock, nbuilds>>
    /\ UNCHANGED collectVars

\* warm, lines 316-317 and 321-322: a request arrives and rebuilds
WarmBuild(t) ==
    /\ thr[t].pc = "idle"
    /\ nbuilds < MaxBuilds
    /\ nbuilds' = nbuilds + 1
    /\ \E all \in BOOLEAN, wi \in 1..Len(Worlds) :
          LET b == WarmRebuild(Worlds[wi], all, clock)
          IN IF b.raised
             THEN /\ thr' = thr
                  /\ last' = JsonResponse(all, 500)
             ELSE /\ thr' = [thr EXCEPT ![t] =
                        [IdleThread EXCEPT
                            !.pc = "warm_store_ics", !.all = all, !.bid = nbuilds + 1,
                            !.ics = b.ics,
                            !.meta = [by |-> nbuilds + 1, events |-> b.collected,
                                      all |-> all, kind |-> "warm"]]]
                  /\ last' = last
    /\ UNCHANGED <<cfg, workers, clock, cache>>
    /\ UNCHANGED collectVars

\* warm, line 318
WarmStoreIcs(t) ==
    /\ thr[t].pc = "warm_store_ics"
    /\ cache' = [cache EXCEPT !.ics = thr[t].ics, !.meta = thr[t].meta]
    /\ thr' = [thr EXCEPT ![t].pc = "warm_store_ts"]
    /\ UNCHANGED <<cfg, workers, clock, nbuilds, last>>
    /\ UNCHANGED collectVars

\* warm, lines 319-320: ts is time.time() read now
WarmStoreTs(t) ==
    /\ thr[t].pc = "warm_store_ts"
    /\ cache' = [cache EXCEPT !.ts = clock, !.tsBy = thr[t].meta.by]
    /\ last' = JsonResponse(thr[t].all, 200)
    /\ thr' = [thr EXCEPT ![t] = IdleThread]
    /\ UNCHANGED <<cfg, workers, clock, nbuilds>>
    /\ UNCHANGED collectVars

Next ==
    \/ Tick
    \/ \E t \in Threads : FeedStart(t)
    \/ \E t \in Threads : FeedHit(t)
    \/ \E t \in Threads : FeedBuild(t)
    \/ \E t \in Threads : FeedStoreIcs(t)
    \/ \E t \in Threads : FeedStoreTs(t)
    \/ \E t \in Threads : WarmBuild(t)
    \/ \E t \in Threads : WarmStoreIcs(t)
    \/ \E t \in Threads : WarmStoreTs(t)

Spec == Init /\ [][Next]_vars

SpecThreaded == InitThreaded /\ [][Next]_vars

(***************************************************************************)
(* collect_combined_events run once, call by call, with every way each     *)
(* HTTP call can go.                                                       *)
(***************************************************************************)
InitCollect ==
    /\ cfg \in Configs
    /\ workers = 1
    /\ ServerIdle
    /\ cpc = "fred"
    /\ creq \in BOOLEAN
    /\ cecon = [raised |-> FALSE, exc |-> "", value |-> <<>>, used_te |-> FALSE]
    /\ csp500 = {}
    /\ cearn = <<>>
    /\ cchunk = 1
    /\ cresult = Ok(<<>>)

\* lines 198-200
CFred ==
    /\ cpc = "fred"
    /\ \E d \in Calls(FredDatesItems), m \in Calls(FredMapItems) :
          LET r == EconPrimary(d, m)
          IN /\ cecon' = [raised |-> r.raised, exc |-> r.exc, value |-> r.value,
                          used_te |-> FALSE]
             /\ cpc' = IF r.raised THEN "raised" ELSE "te"
             /\ cresult' = IF r.raised THEN r ELSE cresult
    /\ UNCHANGED <<cfg, workers, creq, csp500, cearn, cchunk>>
    /\ UNCHANGED serverVars

\* lines 203-207
CTe ==
    /\ cpc = "te"
    /\ \E calls \in [1..NumChunks -> Calls(TeItemsSet)] :
          LET r == EconFallback(cecon.value, calls)
          IN /\ cecon' = r
             /\ cpc' = IF r.raised THEN "raised" ELSE "sp500"
             /\ cresult' = IF r.raised THEN Raised(r.exc) ELSE cresult
    /\ UNCHANGED <<cfg, workers, creq, csp500, cearn, cchunk>>
    /\ UNCHANGED serverVars

\* line 234
CSp500 ==
    /\ cpc = "sp500"
    /\ \E call \in Calls(Sp500Items) : csp500' = fetch_sp500_symbols(call)
    /\ cpc' = "earn"
    /\ UNCHANGED <<cfg, workers, creq, cecon, cearn, cchunk, cresult>>
    /\ UNCHANGED serverVars

\* line 236: one chunk of fetch_earnings_calendar
CEarnChunk ==
    /\ cpc = "earn"
    /\ cchunk <= NumChunks
    /\ \E call \in Calls(EarnItems) : cearn' = earnings_chunk(cearn, call)
    /\ cchunk' = cchunk + 1
    /\ UNCHANGED <<cfg, workers, cpc, creq, cecon, csp500, cresult>>
    /\ UNCHANGED serverVars

\* lines 209-231 and 238-288
CAssemble ==
    /\ cpc = "earn"
    /\ cchunk > NumChunks
    /\ cresult' = Assemble(cecon.value, cecon.used_te, csp500, cearn, creq)
    /\ cpc' = IF cresult'.raised THEN "raised" ELSE "done"
    /\ UNCHANGED <<cfg, workers, creq, cecon, csp500, cearn, cchunk>>
    /\ UNCHANGED serverVars

NextCollect == CFred \/ CTe \/ CSp500 \/ CEarnChunk \/ CAssemble

SpecCollect == InitCollect /\ [][NextCollect]_vars

(***************************************************************************)
(* Properties.                                                             *)
(***************************************************************************)
CalendarType == "text/calendar; charset=utf-8"

\* the events of a result that come from an earnings row
EventsOfRow(events, row) ==
    {j \in 1..Len(events) :
        /\ events[j].uid_text =
              [domain |-> "earn", name |-> <<>>, symbol |-> Upper(row.symbol), date |-> row.date]
        /\ events[j].description.when = WhenOf(row)}

\* the events of a result that come from an economic record
EventsOfItem(events, item) ==
    {j \in 1..Len(events) :
        events[j].uid_text =
            [domain |-> "econ", name |-> OrElse(item.event, EconomicRelease),
             symbol |-> "", date |-> item.date]}

Rows(earn) == {earn[i] : i \in 1..Len(earn)}

\* C1: a feed request is always answered 200 with a calendar document of
\* type text/calendar, also when its rebuild raised: never with a 5xx.
C1_FeedAlwaysCalendar ==
    last.kind = "feed" =>
        /\ last.status = 200
        /\ last.mimetype = CalendarType
        /\ last.body.present

\* C2: for every earnings row that passes the universe filter and has a
\* parsable date, the timing, read case-insensitively, decides the event:
\* "BMO" gives " (Pre Market)" at 08:00 local on the row's date, "AMC" gives
\* " (After Market)" at 16:10 local on the row's date, "" gives no suffix
\* and the parsed timestamp itself.
C2_TimingLabels ==
    cpc = "done" =>
        \A row \in Rows(cearn) :
            Emitted(row, csp500, creq) =>
                /\ EventsOfRow(cresult.value, row) # {}
                /\ \A j \in EventsOfRow(cresult.value, row) :
                      LET e == cresult.value[j]
                          w == Lower(WhenOf(row))
                          day == DateOf(Parse(row.date).dt)
                      IN /\ w = <<"b", "m", "o">> =>
                              /\ e.summary.label = " (Pre Market)"
                              /\ e.dt = [local |-> day + 8 * 60, tz |-> "ET"]
                         /\ w = <<"a", "m", "c">> =>
                              /\ e.summary.label = " (After Market)"
                              /\ e.dt = [local |-> day + 16 * 60 + 10, tz |-> "ET"]
                         /\ w = <<>> =>
                              /\ e.summary.label = ""
                              /\ e.dt = Parse(row.date).dt

\* The "BMO" and "" cases of C2 alone (these hold).
C2_BmoAndEmpty ==
    cpc = "done" =>
        \A row \in Rows(cearn) :
            Emitted(row, csp500, creq) =>
                \A j \in EventsOfRow(cresult.value, row) :
                    LET e == cresult.value[j]
                        w == Lower(WhenOf(row))
                        day == DateOf(Parse(row.date).dt)
                    IN /\ w = <<"b", "m", "o">> =>
                            /\ e.summary.label = " (Pre Market)"
                            /\ e.dt = [local |-> day + 8 * 60, tz |-> "ET"]
                       /\ w = <<>> =>
                            /\ e.summary.label = ""
                            /\ e.dt = Parse(row.date).dt

\* C3: every document feed returns holds at least one VEVENT.
C3_FeedNeverEmpty ==
    (last.kind = "feed" /\ last.status = 200) => Len(last.body.vevents) >= 1

\* C4: a feed request rebuilds exactly when nothing is stored, refresh=1 is
\* set or now - ts >= CACHE_TTL; a request that rebuilds runs one rebuild,
\* stores it and returns the new document; a request that does not returns
\* the stored bytes and leaves the cache alone; and a hit that follows an
\* answer made of the snapshot still stored returns the same bytes.
C4_Step ==
    \A t \in Threads :
        /\ (thr[t].pc = "idle" /\ thr'[t].pc \in {"feed_hit", "feed_build"}) =>
              ((thr'[t].pc = "feed_build") <=>
                  (~cache.ics.present \/ thr'[t].force
                      \/ thr'[t].now - cache.ts >= CACHE_TTL))
        /\ (thr[t].pc = "feed_hit" /\ thr'[t].pc = "idle") =>
              /\ last' = CalendarResponse(thr[t].all, 0, cache.ics, cache.meta)
              /\ cache' = cache
              /\ nbuilds' = nbuilds
              /\ (last.kind = "feed" /\ last.status = 200 /\ last.meta.by = cache.meta.by)
                    => last'.body = last.body
        /\ (thr[t].pc = "feed_build" /\ thr'[t].pc # "feed_build") =>
              thr'[t].pc = "feed_store_ics"
        /\ (thr[t].pc = "feed_store_ts" /\ thr'[t].pc = "idle") =>
              /\ last'.rebuilds = 1
              /\ last'.status = 200
              /\ last'.body = thr[t].ics
              /\ last'.meta.by = thr[t].bid
              /\ cache'.ics = thr[t].ics
              /\ cache'.ts = thr[t].now

\* C4: every step of every feed request keeps the cache contract above.
C4_CacheContract == [][C4_Step]_vars

\* C4 without the step that ends a rebuild (this holds).
C4_StepButRaise ==
    \A t \in Threads :
        /\ (thr[t].pc = "idle" /\ thr'[t].pc \in {"feed_hit", "feed_build"}) =>
              ((thr'[t].pc = "feed_build") <=>
                  (~cache.ics.present \/ thr'[t].force
                      \/ thr'[t].now - cache.ts >= CACHE_TTL))
        /\ (thr[t].pc = "feed_hit" /\ thr'[t].pc = "idle") =>
              /\ last' = CalendarResponse(thr[t].all, 0, cache.ics, cache.meta)
              /\ cache' = cache
              /\ nbuilds' = nbuilds
              /\ (last.kind = "feed" /\ last.status = 200 /\ last.meta.by = cache.meta.by)
                    => last'.body = last.body
        /\ (thr[t].pc = "feed_store_ts" /\ thr'[t].pc = "idle") =>
              /\ last'.rebuilds = 1
              /\ last'.status = 200
              /\ last'.body = thr[t].ics
              /\ last'.meta.by = thr[t].bid
              /\ cache'.ics = thr[t].ics
              /\ cache'.ts = thr[t].now

\* (this holds)
C4_HoldsWhenNothingRaises == [][C4_StepButRaise]_vars

\* C5: no adapter lets the exception of a failed HTTP call out, so the
\* failure of the economic provider never keeps collect_combined_events
\* from fetching the earnings.
C5_AdaptersNeverRaise ==
    /\ ~(cecon.raised /\ cecon.exc = "RequestException")
    /\ ~(cresult.raised /\ cresult.exc = "RequestException")

\* C6: an earnings row with a date passes the universe filter exactly when
\* include-all is set (by the environment or by all=1), or auto-widen is on
\* and the live constituent set is empty, or its uppercased symbol is in
\* the union of the live set and the seed set; a row that passes and whose
\* date parses is in the result, a row that does not pass is not.
C6_Passes(row) ==
    \/ cfg.INCLUDE_ALL_EARNINGS_ENV
    \/ creq
    \/ (cfg.AUTO_EXPAND_EARNINGS /\ csp500 = {})
    \/ Upper(row.symbol) \in (csp500 \cup DOW30)

C6_UniverseFilter ==
    cpc = "done" =>
        \A row \in Rows(cearn) :
            row.date # "" =>
                /\ PassesUniverse(row, csp500, creq) <=> C6_Passes(row)
                /\ Parse(row.date).ok =>
                      ((EventsOfRow(cresult.value, row) # {}) <=> C6_Passes(row))

\* C6's case: include-all off, auto-widen off, the live fetch empty; a seed
\* symbol is in the result and a symbol outside the seed set is not.
C6_Witness ==
    /\ cpc = "done"
    /\ ~cfg.INCLUDE_ALL_EARNINGS_ENV /\ ~cfg.AUTO_EXPAND_EARNINGS /\ ~creq
    /\ csp500 = {}
    /\ \E in \in Rows(cearn), out \in Rows(cearn) :
          /\ in.symbol = "AAPL" /\ Parse(in.date).ok
          /\ out.symbol = "ZZZ" /\ Parse(out.date).ok
          /\ EventsOfRow(cresult.value, in) # {}
          /\ EventsOfRow(cresult.value, out) = {}

\* the UIDs of a document
Uids(doc) == {doc.vevents[i].uid : i \in 1..Len(doc.vevents)}

\* C7: two rebuilds of feed over the same upstream records, placeholders
\* included, give the same set of UIDs whenever they run.
C7_StableUids ==
    \A t \in Threads :
        (/\ thr[t].meta.kind = "feed"
         /\ cache.meta.kind = "feed"
         /\ thr[t].meta.events = cache.meta.events) =>
            Uids(thr[t].ics) = Uids(cache.ics)

\* C7 for the rebuilds that collected at least one event (this holds).
C7_StableUidsOfRecords ==
    \A t \in Threads :
        (/\ thr[t].meta.kind = "feed"
         /\ cache.meta.kind = "feed"
         /\ thr[t].meta.events # <<>>
         /\ thr[t].meta.events = cache.meta.events) =>
            Uids(thr[t].ics) = Uids(cache.ics)

\* C8: no request reads _cache while its ts is not the one written by the
\* rebuild that wrote its ics.
C8_Step ==
    \A t \in Threads :
        (thr[t].pc = "idle" /\ thr'[t].pc \in {"feed_hit", "feed_build"}) =>
            cache.tsBy = cache.meta.by

\* C8: every read of _cache by a request sees ics and ts of one rebuild.
C8_AtomicSnapshot == [][C8_Step]_vars

\* C9: a record whose date does not parse is dropped alone: the call
\* returns, with the events of every other valid record.
C9_BadDateDroppedAlone ==
    /\ ~(cresult.raised /\ cresult.exc = "ParserError")
    /\ cpc = "done" =>
          /\ \A i \in 1..Len(cecon.value) :
                (cecon.value[i].date # "" /\ Parse(cecon.value[i].date).ok) =>
                    EventsOfItem(cresult.value, cecon.value[i]) # {}
          /\ \A row \in Rows(cearn) :
                Emitted(row, csp500, creq) => EventsOfRow(cresult.value, row) # {}

\* C9 for the earnings rows alone (this holds).
C9_EarningsRowsDroppedAlone ==
    cpc = "done" =>
        \A row \in Rows(cearn) :
            Emitted(row, csp500, creq) => EventsOfRow(cresult.value, row) # {}

\* C10: a feed request is answered with a snapshot built with all=1
\* exactly when it carries all=1 itself.
C10_OverrideStaysLocal ==
    (last.kind = "feed" /\ last.status = 200) => last.meta.all = last.all

====
